---- MODULE Spec2Model ----
(***************************************************************************)
(* The scorecard service of feedback-and-scorecard: the /get_scorecard     *)
(* handler (app.py get_transcription), generate_scorecard, and the sales   *)
(* evaluation graph (sales_agent.py): fourteen criterion nodes fanned out  *)
(* from START, each appending one "label: text" item to the aggregate      *)
(* channel, joined at END.                                                 *)
(*                                                                         *)
(* Text is a sequence of characters.  A criterion label is one character   *)
(* of an item (labels hold neither ':' nor white space), " " is white      *)
(* space, ":" the colon, "1".."9" digits, "[" and "]" the JSON brackets.   *)
(*                                                                         *)
(* The handler is an async def with no await in it, so the event loop      *)
(* runs one request at a time; inside graph.invoke the nodes of the        *)
(* superstep run concurrently, which the task actions interleave.          *)
(*                                                                         *)
(* Every request hands graph.invoke the same config: thread "main".        *)
(* Whether a run then begins from the aggregate the MemorySaver kept of    *)
(* the thread depends on the langgraph installed, which nothing pins; the  *)
(* model takes either (restores).                                          *)
(***************************************************************************)
EXTENDS Integers, Sequences, FiniteSets, TLC

VARIABLES
    feedbackDocs,   \* Firestore collection 'feedback': room -> <<>> or <<scorecard>>
    pc,             \* "idle" | "invoke": where the handler is
    room,           \* room_id of the request being (or last) handled
    requests,       \* requests accepted so far
    runs,           \* graph.invoke calls so far
    status,         \* per node of the running graph: its task's state
    attempts,       \* per node: chain.invoke calls its task made in this run
    aggregate,      \* GraphState.aggregate: items in arrival order
    reply,          \* per node: the text the backend returned in this run
    checkpoint,     \* per graph: node labels whose writes the MemorySaver holds
    response,       \* what the last request was answered with
    runCalls,       \* chain.invoke calls (Evaluator Client invocations) of this request
    resumable,      \* node labels the checkpoint held when this run began
    deviations,     \* tasks that failed or returned an unusual text so far
    restores,       \* whether graph.invoke begins from the thread's saved state
    saved,          \* per graph: the aggregate of thread "main" the MemorySaver
                    \* holds from the last superstep that completed
    transcript,     \* generate_scorecard's argument: the entries of the transcription
    formatted,      \* its formatted_transcript: the context and the conversation
    invocations     \* per room: the graph.invoke calls made for its requests

vars == <<feedbackDocs, pc, room, requests, runs, status, attempts,
          aggregate, reply, checkpoint, response, runCalls,
          resumable, deviations, restores, saved, transcript, formatted,
          invocations>>

----------------------------------------------------------------------------
(* Bounds of the model *)

\* requests a behaviour handles
MaxRequests == 2
\* how many nodes of a graph (the first ones of Watched) may arrive out of
\* node order
MaxRacing == 1
\* how many tasks of one behaviour may fail or return an unusual text
MaxDeviations == 1

----------------------------------------------------------------------------
(* Text *)

WS == " "
Colon == ":"
Digits == {"1", "2", "3", "4", "5", "6", "7", "8", "9"}

RECURSIVE LStrip(_)
LStrip(s) == IF s # <<>> /\ Head(s) = WS THEN LStrip(Tail(s)) ELSE s

RECURSIVE RStrip(_)
RStrip(s) == IF s # <<>> /\ s[Len(s)] = WS THEN RStrip(SubSeq(s, 1, Len(s) - 1)) ELSE s

\* str.strip()
Strip(s) == RStrip(LStrip(s))

\* index of the first ':' of s, 0 when there is none
FirstColon(s) ==
    IF \E i \in 1..Len(s) : s[i] = Colon
    THEN CHOOSE i \in 1..Len(s) : s[i] = Colon /\ \A j \in 1..(i - 1) : s[j] # Colon
    ELSE 0

\* item.split(':', 1): one part when there is no ':', else two
SplitOnce(s) ==
    LET i == FirstColon(s)
    IN  IF i = 0 THEN <<s>> ELSE <<SubSeq(s, 1, i - 1), SubSeq(s, i + 1, Len(s))>>

----------------------------------------------------------------------------
(* Values of a Scorecard field *)

\* a Python str
Str(t) == <<"str", t>>
\* Python None
Null == <<"null">>
\* result[key] of a key the dict lacks: KeyError
Missing == <<"KeyError", "raised", "by lookup">>

\* json.loads(s), on the JSON texts this alphabet can write: a number, or an
\* array of at most one value; white space around a value is skipped;
\* anything else is a JSONDecodeError
RECURSIVE JsonValue(_)
JsonValue(s) ==
    LET t == Strip(s)
    IN  IF t = <<>> THEN <<"err">>
        ELSE IF \A i \in 1..Len(t) : t[i] \in Digits THEN <<"ok", <<"num", t>>>>
        ELSE IF Len(t) >= 2 /\ t[1] = "[" /\ t[Len(t)] = "]"
             THEN LET inner == Strip(SubSeq(t, 2, Len(t) - 1))
                  IN  IF inner = <<>> THEN <<"ok", <<"list">>>>
                      ELSE LET v == JsonValue(inner)
                           IN  IF v[1] = "ok" THEN <<"ok", <<"list", v[2]>>>>
                               ELSE <<"err">>
        ELSE <<"err">>

JsonLoads(s) == JsonValue(s)

----------------------------------------------------------------------------
(* The graphs *)

\* sales_agent.py workflow.add_node, in the order the nodes are added; each
\* node function writes the item "<label>: <text>"
SalesNodes ==
    << "product_knowledge_score", "persuasion_and_negotiation_skills",
       "objection_handling", "confidence_score", "value_proposition",
       "pitch_quality", "call_to_action_effectiveness", "questioning_technique",
       "rapport_building", "active_listening_skills", "upselling_success_rate",
       "engagement", "stuttering_words", "feedback" >>

\* customer_agent.py is not among the sources: its nodes are taken to be the
\* criteria the customer branch of generate_scorecard reads
CustomerNodes ==
    << "empathy_score", "clarity_and_conciseness", "grammar_and_language",
       "listening_score", "positive_sentiment_score", "structure_and_flow",
       "stuttering_words", "active_listening_skills",
       "problem_resolution_effectiveness", "personalisation_index",
       "conflict_management", "response_time", "customer_satisfaction_score",
       "rapport_building", "engagement", "feedback" >>

Nodes(type) == IF type = "sales" THEN SalesNodes ELSE CustomerNodes

Range(seq) == {seq[i] : i \in 1..Len(seq)}

AllLabels == Range(SalesNodes) \cup Range(CustomerNodes)

IndexOf(seq, x) == CHOOSE i \in 1..Len(seq) : seq[i] = x

\* the place of each node in its graph
SalesIndex == [l \in Range(SalesNodes) |-> IndexOf(SalesNodes, l)]
CustomerIndex == [l \in Range(CustomerNodes) |-> IndexOf(CustomerNodes, l)]
NodeIndex(type, l) == IF type = "sales" THEN SalesIndex[l] ELSE CustomerIndex[l]

\* f"<label>: {score}"
Item(label, score) == <<label, Colon, WS>> \o score

----------------------------------------------------------------------------
(* generate_scorecard *)

\* a dict in which of two items with one key the earlier one stays
RECURSIVE ToDictFirstWins(_)
ToDictFirstWins(agg) ==
    IF agg = <<>> THEN <<>>
    ELSE LET parts == SplitOnce(agg[1])
         IN  (Strip(parts[1]) :> Strip(parts[2])) @@ ToDictFirstWins(Tail(agg))

\* {item.split(':', 1)[0].strip(): item.split(':', 1)[1].strip() for item in
\* result['aggregate']}: the items are taken in order, so of two items with
\* one key the later one stays
RECURSIVE ToDict(_)
ToDict(agg) ==
    IF agg = <<>> THEN <<>>
    ELSE LET parts == SplitOnce(agg[Len(agg)])
         IN  (Strip(parts[1]) :> Strip(parts[2])) @@ ToDict(SubSeq(agg, 1, Len(agg) - 1))

\* an item without ':' has no second part: IndexError
ParsedAggregate(agg) ==
    IF \E i \in 1..Len(agg) : Len(SplitOnce(agg[i])) < 2 THEN <<"err">>
    ELSE <<"ok", ToDict(agg)>>

\* a lookup that reads the feedback entry whatever the label
GetWrongKey(result, label) ==
    IF <<"feedback">> \in DOMAIN result THEN Str(result[<<"feedback">>]) ELSE Missing

\* result["<label>"]
Get(result, label) ==
    IF <<label>> \in DOMAIN result THEN Str(result[<<label>>]) ELSE Missing

\* the feedback entry taken as the text it is, json.loads left out
FeedbackUnparsed(result) ==
    IF <<"feedback">> \notin DOMAIN result THEN Missing ELSE Str(result[<<"feedback">>])

\* json.loads(result["feedback"])
Feedback(result) ==
    IF <<"feedback">> \notin DOMAIN result THEN Missing
    ELSE LET j == JsonLoads(result[<<"feedback">>])
         IN  IF j[1] = "ok" THEN j[2] ELSE Missing

\* the customer branch without the sections of the sales profile
CustomerScorecardOmitting(result) ==
    [ communication_and_delivery |->
        [ empathy_score |-> Get(result, "empathy_score"),
          clarity_and_conciseness |-> Get(result, "clarity_and_conciseness"),
          grammar_and_language |-> Get(result, "grammar_and_language"),
          listening_score |-> Get(result, "listening_score"),
          positive_sentiment_score |-> Get(result, "positive_sentiment_score"),
          structure_and_flow |-> Get(result, "structure_and_flow"),
          stuttering_words |-> Get(result, "stuttering_words"),
          active_listening_skills |-> Get(result, "active_listening_skills") ],
      customer_interaction_and_resolution |->
        [ problem_resolution_effectiveness |-> Get(result, "problem_resolution_effectiveness"),
          personalisation_index |-> Get(result, "personalisation_index"),
          conflict_management |-> Get(result, "conflict_management"),
          response_time |-> Get(result, "response_time"),
          customer_satisfaction_score |-> Get(result, "customer_satisfaction_score"),
          rapport_building |-> Get(result, "rapport_building"),
          engagement |-> Get(result, "engagement") ],
      feedback |-> Feedback(result) ]

\* the dict returned by the customer branch
CustomerScorecard(result) ==
    [ communication_and_delivery |->
        [ empathy_score |-> Get(result, "empathy_score"),
          clarity_and_conciseness |-> Get(result, "clarity_and_conciseness"),
          grammar_and_language |-> Get(result, "grammar_and_language"),
          listening_score |-> Get(result, "listening_score"),
          positive_sentiment_score |-> Get(result, "positive_sentiment_score"),
          structure_and_flow |-> Get(result, "structure_and_flow"),
          stuttering_words |-> Get(result, "stuttering_words"),
          active_listening_skills |-> Get(result, "active_listening_skills") ],
      customer_interaction_and_resolution |->
        [ problem_resolution_effectiveness |-> Get(result, "problem_resolution_effectiveness"),
          personalisation_index |-> Get(result, "personalisation_index"),
          conflict_management |-> Get(result, "conflict_management"),
          response_time |-> Get(result, "response_time"),
          customer_satisfaction_score |-> Get(result, "customer_satisfaction_score"),
          rapport_building |-> Get(result, "rapport_building"),
          engagement |-> Get(result, "engagement") ],
      sales_and_persuasion |->
        [ product_knowledge_score |-> Null,
          persuasion_and_negotiation_skills |-> Null,
          objection_handling |-> Null,
          upselling_success_rate |-> Null,
          call_to_action_effectiveness |-> Null,
          questioning_technique |-> Null ],
      professionalism_and_presentation |->
        [ confidence_score |-> Null,
          value_proposition |-> Null,
          pitch_quality |-> Null ],
      feedback |-> Feedback(result) ]

\* the dict returned by the sales branch
SalesScorecard(result) ==
    [ communication_and_delivery |->
        [ empathy_score |-> Null,
          clarity_and_conciseness |-> Null,
          grammar_and_language |-> Null,
          listening_score |-> Null,
          positive_sentiment_score |-> Null,
          structure_and_flow |-> Null,
          stuttering_words |-> Null,
          active_listening_skills |-> Null ],
      customer_interaction_and_resolution |->
        [ problem_resolution_effectiveness |-> Null,
          personalisation_index |-> Null,
          conflict_management |-> Null,
          response_time |-> Null,
          customer_satisfaction_score |-> Null,
          rapport_building |-> Null,
          engagement |-> Null ],
      sales_and_persuasion |->
        [ product_knowledge_score |-> Get(result, "product_knowledge_score"),
          persuasion_and_negotiation_skills |-> Get(result, "persuasion_and_negotiation_skills"),
          objection_handling |-> Get(result, "objection_handling"),
          upselling_success_rate |-> Get(result, "upselling_success_rate"),
          call_to_action_effectiveness |-> Get(result, "call_to_action_effectiveness"),
          questioning_technique |-> Get(result, "questioning_technique") ],
      professionalism_and_presentation |->
        [ confidence_score |-> Get(result, "confidence_score"),
          value_proposition |-> Get(result, "value_proposition"),
          pitch_quality |-> Get(result, "pitch_quality") ],
      feedback |-> Feedback(result) ]

Sections ==
    { "communication_and_delivery", "customer_interaction_and_resolution",
      "sales_and_persuasion", "professionalism_and_presentation" }

\* building the returned dict raises (KeyError, JSONDecodeError) as soon as
\* one of its entries does
Raises(card) ==
    \/ card.feedback = Missing
    \/ \E s \in DOMAIN card \ {"feedback"} : \E f \in DOMAIN card[s] : card[s][f] = Missing

\* the items read by their place in the aggregate: the i-th item is taken
\* for the i-th node of the graph
ScorecardByPlace(type, agg) ==
    LET n == IF Len(agg) < Len(Nodes(type)) THEN Len(agg) ELSE Len(Nodes(type))
        result == [k \in {<<Nodes(type)[i]>> : i \in 1..n} |->
                      Strip(SubSeq(agg[NodeIndex(type, k[1])], 4, Len(agg[NodeIndex(type, k[1])])))]
        card == IF type = "customer" THEN CustomerScorecard(result) ELSE SalesScorecard(result)
    IN  IF Raises(card) THEN <<"err">> ELSE <<"ok", card>>

\* generate_scorecard from graph.invoke's result on: <<"err">> when it
\* raises, else <<"ok", the returned dict>>
Scorecard(type, agg) ==
    LET parsed == ParsedAggregate(agg)
    IN  IF parsed[1] = "err" THEN <<"err">>
        ELSE LET card == IF type = "customer" THEN CustomerScorecard(parsed[2])
                         ELSE SalesScorecard(parsed[2])
             IN  IF Raises(card) THEN <<"err">> ELSE <<"ok", card>>

----------------------------------------------------------------------------
(* Firestore and the backend *)

Rooms == {"room_sales", "room_sales_2", "room_customer", "room_other", "room_missing"}

\* a stored transcript: a system entry and two turns of a conversation
Entries(c) ==
    << [role |-> "system", content |-> c], [role |-> "user", content |-> "c1"],
       [role |-> "assistant", content |-> "c2"] >>

\* collection 'Transcription', which the service only reads: <<>> when the
\* room has no document, else <<its document>>
Transcription(r) ==
    CASE r = "room_sales"    -> << [type |-> "sales", transcript |-> Entries("c1")] >>
      [] r = "room_sales_2"  -> << [type |-> "sales", transcript |-> Entries("c2")] >>
      [] r = "room_customer" -> << [type |-> "customer", transcript |-> Entries("c2")] >>
      [] r = "room_other"    -> << [type |-> "support", transcript |-> Entries("c1")] >>
      [] OTHER               -> << >>

\* the handler without its look at the stored feedback
FeedbackNeverFound(r) == FALSE

\* feedback_doc.exists
FeedbackExists(r) == feedbackDocs[r] # <<>>

\* doc.exists
TranscriptionExists(r) == Transcription(r) # <<>>

\* doc.to_dict()["type"] ("none" stands for a room without a document)
TypeOf(r) == IF Transcription(r) = <<>> THEN "none" ELSE Transcription(r)[1].type

\* type in ["customer", "sales"]
ValidType(type) == type \in {"customer", "sales"}

RunDigit(n) == <<"1", "2", "3", "4", "5", "6", "7", "8", "9">>[n]

\* the text the backend usually returns to node `label` in graph run n: a
\* score that tells the run and the criterion, and for feedback a JSON array
UsualReply(n, label) ==
    IF label = "feedback" THEN <<"[", RunDigit(n), "]">> ELSE <<RunDigit(n), label>>

\* texts it may return instead: padded with white space, empty, holding a
\* ':', and for feedback padded, cut short, empty
UnusualReplies(n, label) ==
    IF label = "feedback"
    THEN { <<WS>> \o UsualReply(n, label) \o <<WS>>, <<"[", RunDigit(n)>>, <<>> }
    ELSE { <<WS>> \o UsualReply(n, label) \o <<WS>>, <<>>,
           <<RunDigit(n), Colon, label>> }

\* the nodes whose tasks the model lets arrive out of node order, the first
\* MaxRacing of them
Watched(type) ==
    IF type = "sales"
    THEN << "upselling_success_rate", "feedback", "stuttering_words", "engagement" >>
    ELSE << "rapport_building", "feedback", "engagement", "customer_satisfaction_score" >>

\* the nodes whose tasks the model lets fail or return an unusual text: one
\* score and the feedback of the sales graph.  The node functions of the
\* customer graph are not in the source at hand; its nodes are taken to
\* return their usual texts
Deviating(type) ==
    IF type = "sales" THEN {"upselling_success_rate", "feedback"} ELSE {}

RacingOf(type) ==
    {Watched(type)[i] : i \in 1..(IF MaxRacing < Len(Watched(type)) THEN MaxRacing ELSE Len(Watched(type)))}

RacingSales == RacingOf("sales")
RacingCustomer == RacingOf("customer")
Racing(type) == IF type = "sales" THEN RacingSales ELSE RacingCustomer

\* the nodes that are not racing, per graph
SteadySales == Range(SalesNodes) \ RacingSales
SteadyCustomer == Range(CustomerNodes) \ RacingCustomer
Steady(type) == IF type = "sales" THEN SteadySales ELSE SteadyCustomer

----------------------------------------------------------------------------
(* State *)

NoStatus == [l \in AllLabels |-> "none"]
NoReply  == [l \in AllLabels |-> <<>>]

\* the type of the transcription being evaluated
RunType == TypeOf(room)

Failed(l) == status[l] \in {"failed_transient", "failed_fatal"}

\* no formatted transcript: generate_scorecard is not running
NoFormat == [context |-> "", conversation |-> <<>>]

\* lines 74-85 of generate_scorecard: the content of every system entry
\* replaces the context, every other entry is appended to the conversation
\* as "role: content"
RECURSIVE FormattedTranscript(_)
FormattedTranscript(t) ==
    IF t = <<>> THEN [context |-> "", conversation |-> <<>>]
    ELSE LET front == FormattedTranscript(SubSeq(t, 1, Len(t) - 1))
             entry == t[Len(t)]
         IN  IF entry.role = "system"
             THEN [front EXCEPT !.context = entry.content]
             ELSE [front EXCEPT !.conversation = Append(@, <<entry.role, entry.content>>)]

Init ==
    /\ feedbackDocs = [r \in Rooms |-> <<>>]
    /\ pc = "idle"
    /\ room = "room_missing"
    /\ requests = 0
    /\ runs = 0
    /\ status = NoStatus
    /\ attempts = [l \in AllLabels |-> 0]
    /\ aggregate = <<>>
    /\ reply = NoReply
    /\ checkpoint = [t \in {"customer", "sales"} |-> {}]
    /\ response = <<"none">>
    /\ runCalls = 0
    /\ resumable = {}
    /\ deviations = 0
    /\ restores \in BOOLEAN
    /\ saved = [t \in {"customer", "sales"} |-> <<>>]
    /\ transcript = <<>>
    /\ formatted = NoFormat
    /\ invocations = [r \in Rooms |-> 0]

\* what outlives a request
kept == <<runs, checkpoint, deviations, restores, saved, invocations>>

\* the locals of generate_scorecard and of graph.invoke are dropped when the
\* next request comes in
NoRun ==
    /\ status' = NoStatus
    /\ attempts' = [l \in AllLabels |-> 0]
    /\ aggregate' = <<>>
    /\ reply' = NoReply
    /\ runCalls' = 0
    /\ resumable' = {}
    /\ transcript' = <<>>
    /\ formatted' = NoFormat

thisRun == <<status, attempts, aggregate, reply, runCalls, resumable, transcript, formatted>>

----------------------------------------------------------------------------
(* get_transcription *)

\* a request whose feedback document exists: the document is returned
ReturnStored(r) ==
    /\ pc = "idle" /\ requests < MaxRequests
    /\ FeedbackExists(r)
    /\ room' = r
    /\ requests' = requests + 1
    /\ response' = <<"scorecard", feedbackDocs[r][1]>>
    /\ NoRun
    /\ UNCHANGED <<feedbackDocs, pc, kept>>

\* no feedback and no transcription: the HTTPException(404) is raised inside
\* the try and caught by `except Exception`, which answers 500
TranscriptionNotFound(r) ==
    /\ pc = "idle" /\ requests < MaxRequests
    /\ ~FeedbackExists(r)
    /\ ~TranscriptionExists(r)
    /\ room' = r
    /\ requests' = requests + 1
    /\ response' = <<"http500", "404: Transcription not found">>
    /\ NoRun
    /\ UNCHANGED <<feedbackDocs, pc, kept>>

\* a transcription of another type
InvalidType(r) ==
    /\ pc = "idle" /\ requests < MaxRequests
    /\ ~FeedbackExists(r)
    /\ TranscriptionExists(r)
    /\ ~ValidType(TypeOf(r))
    /\ room' = r
    /\ requests' = requests + 1
    /\ response' = <<"error", "Invalid type">>
    /\ NoRun
    /\ UNCHANGED <<feedbackDocs, pc, kept>>

\* the nodes graph.invoke(input, config) schedules: the input is a new
\* transcript, so the superstep after START runs every node of the graph,
\* whatever the checkpointer holds
Scheduled(type, held) == Range(Nodes(type))

\* the aggregate channel graph.invoke begins with.  config names thread
\* "main" with a checkpoint_ns and a checkpoint_id no checkpoint ever has:
\* a langgraph that looks that checkpoint up finds none and begins with the
\* empty channel; one that resets the two keys of a root graph loads the
\* latest checkpoint of the thread, and `add` appends to what it holds
Restored(type) == IF restores THEN saved[type] ELSE <<>>

\* generate_scorecard up to graph.invoke: every node of the graph is started
StartEvaluation(r) ==
    /\ pc = "idle" /\ requests < MaxRequests
    /\ ~FeedbackExists(r)
    /\ TranscriptionExists(r)
    /\ ValidType(TypeOf(r))
    /\ LET type == TypeOf(r)
       IN  /\ status' = [l \in AllLabels |->
                           IF l \in Scheduled(type, checkpoint[type]) THEN "running" ELSE "none"]
           /\ resumable' = checkpoint[type]
           /\ checkpoint' = [checkpoint EXCEPT ![type] = {}]
    /\ room' = r
    /\ requests' = requests + 1
    /\ pc' = "invoke"
    /\ runs' = runs + 1
    /\ attempts' = [l \in AllLabels |-> 0]
    /\ transcript' = Transcription(r)[1].transcript
    /\ formatted' = FormattedTranscript(Transcription(r)[1].transcript)
    /\ aggregate' = Restored(TypeOf(r))
    /\ reply' = NoReply
    /\ runCalls' = 0
    /\ response' = <<"none">>
    /\ invocations' = [invocations EXCEPT ![r] = @ + 1]
    /\ UNCHANGED <<feedbackDocs, deviations, restores, saved>>

----------------------------------------------------------------------------
(* The nodes of the graph *)

\* a channel that keeps only the last write
Overwrite(channel, items) == items

\* a reducer that adds every write twice
AddTwice(channel, items) == channel \o items \o items

\* operator.add, the reducer of the aggregate channel
Add(channel, items) == channel \o items

\* the model's bound on interleaving: a node arrives once every node before
\* it that is not racing has; a racing node may so be overtaken by any later
\* node, the others only by racing ones
MayArrive(l) ==
    /\ status[l] = "running"
    /\ \A k \in Steady(RunType) :
           NodeIndex(RunType, k) < NodeIndex(RunType, l) => status[k] # "running"

\* a node function whose chain.invoke returns `text`: one item is added to
\* the aggregate channel and the write is held by the checkpointer
NodeReturns(l, text) ==
    /\ pc = "invoke"
    /\ MayArrive(l)
    /\ status' = [status EXCEPT ![l] = "done"]
    /\ attempts' = [attempts EXCEPT ![l] = @ + 1]
    /\ runCalls' = runCalls + 1
    /\ aggregate' = Add(aggregate, <<Item(l, text)>>)
    /\ reply' = [reply EXCEPT ![l] = text]
    /\ checkpoint' = [checkpoint EXCEPT ![RunType] = @ \cup {l}]
    /\ UNCHANGED <<feedbackDocs, pc, room, requests, runs, response, resumable,
                   restores, saved, transcript, formatted, invocations>>

Usual(l) ==
    /\ pc = "invoke"
    /\ \E text \in {UsualReply(runs, l)} : NodeReturns(l, text)
    /\ UNCHANGED deviations

Unusual(l) ==
    /\ pc = "invoke"
    /\ l \in Deviating(RunType)
    /\ deviations < MaxDeviations
    /\ \E text \in UnusualReplies(runs, l) : NodeReturns(l, text)
    /\ deviations' = deviations + 1

\* a node function whose chain.invoke raises (kind: "failed_transient" for a
\* timeout or a 5xx, "failed_fatal" otherwise): the node calls it once and
\* lets the exception go
NodeRaises(l, kind) ==
    /\ pc = "invoke"
    /\ MayArrive(l)
    /\ l \in Deviating(RunType)
    /\ deviations < MaxDeviations
    /\ deviations' = deviations + 1
    /\ status' = [status EXCEPT ![l] = kind]
    /\ attempts' = [attempts EXCEPT ![l] = @ + 1]
    /\ runCalls' = runCalls + 1
    /\ UNCHANGED <<feedbackDocs, pc, room, requests, runs, response,
                   aggregate, reply, checkpoint, resumable, restores, saved,
                   transcript, formatted, invocations>>

----------------------------------------------------------------------------
(* The end of graph.invoke and of the request *)

\* a join that waits for one node only
SettledAny(type) == \E l \in Range(Nodes(type)) : status[l] = "done"

\* workflow.add_edge([every node], END): the superstep is over when every
\* node of the graph has returned
Settled(type) == \A l \in Range(Nodes(type)) : status[l] = "done"

\* a node raised: graph.invoke raises, the nodes still running are given up,
\* generate_scorecard raises and the handler answers 500
InvokeRaises ==
    /\ pc = "invoke"
    /\ \E l \in AllLabels : Failed(l)
    /\ status' = [l \in AllLabels |-> IF status[l] = "running" THEN "cancelled" ELSE status[l]]
    /\ response' = <<"http500", "node error">>
    /\ pc' = "idle"
    /\ UNCHANGED <<feedbackDocs, room, requests, runs, attempts, aggregate,
                   reply, checkpoint, runCalls, resumable, deviations,
                   restores, saved, transcript, formatted, invocations>>

\* the aggregate the run would hold had its nodes arrived in node order
InNodeOrder ==
    [i \in 1..Len(Nodes(RunType)) |-> Item(Nodes(RunType)[i], reply[Nodes(RunType)[i]])]

\* the channel as the checkpoint of the completed superstep keeps it.  The
\* items one superstep added are kept in node order: it adds one item per
\* label and line 135 keeps the last item of a label, so nothing that reads
\* the channel tells the orders of one superstep's items apart
Saved == Restored(RunType) \o InNodeOrder

\* a handler that stores a record also when generate_scorecard raised: the
\* record of what it had by then
SetBeforeReturn(docs, r, made) ==
    [docs EXCEPT ![r] = IF made[1] = "ok" THEN <<made[2]>> ELSE <<[feedback |-> Missing]>>]

\* feedback = generate_scorecard(...) followed by feedback_doc_ref.set(feedback):
\* the set is reached only when generate_scorecard returned
Set(docs, r, made) ==
    IF made[1] = "ok" THEN [docs EXCEPT ![r] = <<made[2]>>] ELSE docs

\* every node returned: the superstep's checkpoint is saved, the aggregate
\* is turned into the Scorecard, which is stored and returned; an exception
\* on the way is answered 500 and nothing is stored
InvokeReturns ==
    /\ pc = "invoke"
    /\ Settled(RunType)
    /\ LET made == Scorecard(RunType, aggregate)
       IN  /\ feedbackDocs' = Set(feedbackDocs, room, made)
           /\ response' = IF made[1] = "ok" THEN <<"scorecard", made[2]>>
                          ELSE <<"http500", "scorecard error">>
    /\ saved' = [saved EXCEPT ![RunType] = IF restores THEN Saved ELSE @]
    /\ pc' = "idle"
    /\ UNCHANGED <<room, requests, runs, checkpoint, deviations, restores, invocations,
                   thisRun>>

Next ==
    \/ \E r \in Rooms : ReturnStored(r)
    \/ \E r \in Rooms : TranscriptionNotFound(r)
    \/ \E r \in Rooms : InvalidType(r)
    \/ \E r \in Rooms : StartEvaluation(r)
    \/ \E l \in AllLabels : Usual(l)
    \/ \E l \in AllLabels : Unusual(l)
    \/ \E l \in AllLabels : \E kind \in {"failed_transient", "failed_fatal"} : NodeRaises(l, kind)
    \/ InvokeRaises
    \/ InvokeReturns

Spec == Init /\ [][Next]_vars

----------------------------------------------------------------------------
(* generate_scorecard's assembly on its own (app.py lines 135-171 and       *)
(* 92-128), applied to aggregates the graph is not known to produce         *)

\* how many criteria an aggregate handed to the assembly may lack
MaxMissing == 1

\* the items of a run of `type` whose nodes got their usual texts and
\* feedback got `fb`, without the items of the nodes in `missing`
ItemsWithout(type, missing, fb) ==
    LET left == SelectSeq(Nodes(type), LAMBDA l : l \notin missing)
    IN  [i \in 1..Len(left) |->
            Item(left[i], IF left[i] = "feedback" THEN fb ELSE UsualReply(1, left[i]))]

AssembleInit ==
    /\ feedbackDocs = [r \in Rooms |-> <<>>]
    /\ pc = "assemble"
    /\ room \in {"room_sales", "room_customer"}
    /\ requests = 1
    /\ runs = 1
    /\ status = NoStatus
    /\ attempts = [l \in AllLabels |-> 0]
    /\ \E missing \in SUBSET Range(Nodes(TypeOf(room))) :
          /\ Cardinality(missing) <= MaxMissing
          /\ \E fb \in {UsualReply(1, "feedback"), <<"[", "1">>} :
                aggregate = ItemsWithout(TypeOf(room), missing, fb)
    /\ reply = NoReply
    /\ checkpoint = [t \in {"customer", "sales"} |-> {}]
    /\ response = <<"none">>
    /\ runCalls = 0
    /\ resumable = {}
    /\ deviations = 0
    /\ restores = FALSE
    /\ saved = [t \in {"customer", "sales"} |-> <<>>]
    /\ transcript = <<>>
    /\ formatted = NoFormat
    /\ invocations = [r \in Rooms |-> 0]

\* the dict comprehension and the dict literal of generate_scorecard; what
\* they raise is answered 500 by the handler
Assemble ==
    /\ pc = "assemble"
    /\ LET made == Scorecard(RunType, aggregate)
       IN  response' = IF made[1] = "ok" THEN <<"scorecard", made[2]>>
                       ELSE <<"http500", "scorecard error">>
    /\ pc' = "assembled"
    /\ UNCHANGED <<feedbackDocs, room, requests, runs, status, attempts, aggregate,
                   reply, checkpoint, runCalls, resumable, deviations, restores, saved,
                   transcript, formatted, invocations>>

AssembleNext == Assemble

AssembleSpec == AssembleInit /\ [][AssembleNext]_vars

----------------------------------------------------------------------------
(* The formatting of the transcript on its own (app.py lines 74-85),        *)
(* applied to every short transcript                                        *)

\* entries of a transcript handed to the formatting
MaxTurns == 3

Roles == {"system", "user", "assistant"}
Contents == {"c1", "c2"}

\* the transcripts of at most MaxTurns entries
Transcripts ==
    UNION {[1..n -> [role : Roles, content : Contents]] : n \in 0..MaxTurns}

FormatInit ==
    /\ feedbackDocs = [r \in Rooms |-> <<>>]
    /\ pc = "format"
    /\ room = "room_sales"
    /\ requests = 1
    /\ runs = 0
    /\ status = NoStatus
    /\ attempts = [l \in AllLabels |-> 0]
    /\ aggregate = <<>>
    /\ reply = NoReply
    /\ checkpoint = [t \in {"customer", "sales"} |-> {}]
    /\ response = <<"none">>
    /\ runCalls = 0
    /\ resumable = {}
    /\ deviations = 0
    /\ restores = FALSE
    /\ saved = [t \in {"customer", "sales"} |-> <<>>]
    /\ transcript \in Transcripts
    /\ formatted = NoFormat
    /\ invocations = [r \in Rooms |-> 0]

\* the loop over the entries and the f-string that follows it
Format ==
    /\ pc = "format"
    /\ formatted' = FormattedTranscript(transcript)
    /\ pc' = "formatted"
    /\ UNCHANGED <<feedbackDocs, room, requests, runs, status, attempts, aggregate,
                   reply, checkpoint, response, runCalls, resumable, deviations,
                   restores, saved, transcript, invocations>>

FormatNext == Format

FormatSpec == FormatInit /\ [][FormatNext]_vars

----------------------------------------------------------------------------
(* What the claims speak of *)

\* a graph run of this request ended with every node returned
RunDone == pc = "idle" /\ runCalls > 0 /\ \A l \in Range(Nodes(RunType)) : status[l] = "done"

\* this request assembled a Scorecard and returned it
Assembled == RunDone /\ response[1] = "scorecard"

\* the sections whose fields belong to a profile
ProfileSections(type) ==
    IF type = "sales"
    THEN {"sales_and_persuasion", "professionalism_and_presentation"}
    ELSE {"communication_and_delivery", "customer_interaction_and_resolution"}

\* the value of a criterion's result: the text its node got, without the
\* white space around it
Value(l) == Str(Strip(reply[l]))

\* the retry bound of the specification's orchestrator (section 4.1)
RetryBound == 2

----------------------------------------------------------------------------
(* C1 *)

\* C1: once a room's feedback document exists it is never changed, and every
\* later request for that room is answered with the stored Scorecard, starts
\* no graph run and leaves no node to call the backend
C1_Idempotent ==
    [][\A r \in Rooms :
         feedbackDocs[r] # <<>> =>
           /\ feedbackDocs'[r] = feedbackDocs[r]
           /\ (requests' = requests + 1 /\ room' = r) =>
                /\ response' = <<"scorecard", feedbackDocs[r][1]>>
                /\ runs' = runs
                /\ pc' = "idle"
                /\ runCalls' = 0
                /\ \A l \in AllLabels : status'[l] = "none"]_vars

\* the stored Scorecard of the sales room was returned to a later request,
\* after the one graph run that made it
C1_Witness ==
    /\ requests = 2 /\ runs = 1 /\ pc = "idle"
    /\ room = "room_sales" /\ runCalls = 0
    /\ response = <<"scorecard", feedbackDocs["room_sales"][1]>>
    /\ checkpoint["sales"] = Range(SalesNodes)

(* C2 *)

\* C2: a run that begins while the checkpoint holds the writes of K of the
\* graph's N nodes schedules none of those K nodes and makes at most N - K
\* backend calls
C2_Resumes ==
    pc = "invoke" =>
      /\ \A l \in resumable : status[l] = "none"
      /\ runCalls + Cardinality(resumable) <= Len(Nodes(RunType))

(* C3 *)

\* C3: when exactly one node of a run failed and all others returned, the
\* request is answered with a PartialEvaluationError that holds the results
\* of the others and names the failed node
C3_PartialFailure ==
    (/\ pc = "idle" /\ runCalls > 0
     /\ Cardinality({l \in Range(Nodes(RunType)) : Failed(l)}) = 1
     /\ \A l \in Range(Nodes(RunType)) : Failed(l) \/ status[l] = "done")
    => response = << "PartialEvaluationError",
                     [l \in {k \in Range(Nodes(RunType)) : status[k] = "done"} |-> Value(l)],
                     {l \in Range(Nodes(RunType)) : Failed(l)} >>

(* C4 *)

\* C4: a node whose backend call failed transiently counts as failed only
\* after RetryBound + 1 attempts, and no node makes more attempts than that
C4_Retried ==
    \A l \in AllLabels :
        /\ attempts[l] <= RetryBound + 1
        /\ status[l] = "failed_transient" => attempts[l] = RetryBound + 1

(* C5 *)

\* C5: in an assembled Scorecard every field of a section of the other
\* profile is None and every field of a section of the run's profile is the
\* value of the criterion of that name
C5_Assemble ==
    Assembled =>
      \A s \in Sections : \A f \in DOMAIN response[2][s] :
          response[2][s][f] = IF s \in ProfileSections(RunType) THEN Value(f) ELSE Null

\* a sales Scorecard was assembled from a padded reply after a customer one
C5_Witness ==
    /\ Assembled /\ room = "room_sales"
    /\ feedbackDocs["room_customer"] # <<>>
    /\ reply["upselling_success_rate"] = <<WS, "2", "upselling_success_rate", WS>>

(* C6 *)

\* C6: every Scorecard stored or returned has the four sections and the
\* feedback entry, and two Scorecards, of whichever profiles, have the same
\* field names in each section
C6_SameShape ==
    LET cards == {feedbackDocs[r][1] : r \in {q \in Rooms : feedbackDocs[q] # <<>>}}
                 \cup (IF response[1] = "scorecard" THEN {response[2]} ELSE {})
    IN  \A c \in cards :
          /\ DOMAIN c = Sections \cup {"feedback"}
          /\ \A d \in cards : \A s \in Sections : DOMAIN c[s] = DOMAIN d[s]

\* a customer and a sales Scorecard are both stored
C6_Witness ==
    /\ feedbackDocs["room_sales"] # <<>>
    /\ feedbackDocs["room_customer"] # <<>>

(* C7 *)

\* C7: in a Scorecard assembled by a sales run every criterion of the sales
\* graph has a field of its name that holds its value
C7_AllMapped ==
    (Assembled /\ RunType = "sales") =>
      \A l \in Range(SalesNodes) \ {"feedback"} :
          \E s \in Sections : l \in DOMAIN response[2][s] /\ response[2][s][l] = Value(l)

(* C8 *)

\* C8: when every node returned, a feedback text that is no JSON ends the
\* request in an error with nothing stored, and a Scorecard that is
\* returned holds the parsed feedback
C8_Feedback ==
    RunDone =>
      IF JsonLoads(reply["feedback"])[1] = "ok"
      THEN response[1] = "scorecard" => response[2].feedback = JsonLoads(reply["feedback"])[2]
      ELSE response[1] = "http500" /\ feedbackDocs[room] = <<>>

\* every node returned and the feedback text was cut short
C8_Witness ==
    /\ RunDone
    /\ reply["feedback"] = <<"[", "1">>
    /\ response[1] = "http500"

(* C9 *)

\* C9: the outcome of a run whose nodes all returned is the one the same
\* replies give when they arrive in node order
C9_OrderFree ==
    RunDone =>
      LET made == Scorecard(RunType, InNodeOrder)
      IN  IF made[1] = "ok" THEN response = <<"scorecard", made[2]>>
          ELSE response[1] = "http500"

\* a Scorecard was assembled from replies, one of them unusual, that did not
\* arrive in node order
C9_Witness ==
    /\ Assembled
    /\ aggregate # InNodeOrder
    /\ \E l \in Range(Nodes(RunType)) : reply[l] # UsualReply(runs, l)

(* C10 *)

\* C10: in an assembled Scorecard no field of the run's profile is None or
\* the empty text
C10_NoSilentDowngrade ==
    Assembled =>
      \A s \in ProfileSections(RunType) : \A f \in DOMAIN response[2][s] :
          response[2][s][f] # Null /\ response[2][s][f] # Str(<<>>)

----------------------------------------------------------------------------
(* What the claims C11 to C20 speak of *)

\* the criteria the items of an aggregate are labelled with
Labels(agg) == {agg[i][1] : i \in 1..Len(agg)}

\* how many items of an aggregate are labelled l
Count(agg, l) == Cardinality({i \in 1..Len(agg) : agg[i][1] = l})

\* the tasks of the run that have not settled
Pending == {l \in AllLabels : status[l] = "running"}

\* the request went through a graph run and is over
RunOver == pc = "idle" /\ runCalls > 0

\* the text node l got cannot be interpreted: no JSON for feedback, no
\* value at all for a score
Unparsable(l) ==
    IF l = "feedback" THEN JsonLoads(reply[l])[1] # "ok" ELSE Strip(reply[l]) = <<>>

(* C11 *)

\* C11: when every node of a run returned, the aggregate holds exactly one
\* item per criterion of the graph, as many items as the graph has nodes,
\* and no task is pending
C11_OnePerCriterion ==
    RunDone =>
      /\ Len(aggregate) = Len(Nodes(RunType))
      /\ \A l \in Range(Nodes(RunType)) : Count(aggregate, l) = 1
      /\ Pending = {}

(* C12 *)

\* C12: no criterion is at once pending and among the criteria the
\* checkpointed aggregate holds a result of
C12_Disjoint == Pending \cap Labels(aggregate) = {}

(* C13 *)

C14_Contained ==
    RunOver => \A l \in Range(Nodes(RunType)) : status[l] = "done" \/ Failed(l)

(* C15 *)

\* C15: a node whose call failed for good, or whose text cannot be
\* interpreted, made exactly one attempt, and the request's answer names it
\* as a failed criterion
C15_FailedOnce ==
    \A l \in AllLabels :
        /\ status[l] = "failed_fatal" => attempts[l] = 1
        /\ (RunOver /\ (status[l] = "failed_fatal" \/ (status[l] = "done" /\ Unparsable(l))))
           => (response[1] = "PartialEvaluationError" /\ l \in response[3])

(* C16 *)

\* C16: the item of a node is in the aggregate as soon as the node has
\* returned, and a request that went through a run in which no node failed
\* ends only after every node returned, with every node's item in the
\* aggregate the Scorecard is made of
C16_WriteThenRead ==
    /\ \A l \in AllLabels :
          status[l] = "done" => \E i \in 1..Len(aggregate) : aggregate[i] = Item(l, reply[l])
    /\ (RunOver /\ ~ \E l \in AllLabels : Failed(l))
       => /\ \A l \in Range(Nodes(RunType)) : status[l] = "done"
          /\ Labels(aggregate) = Range(Nodes(RunType))

\* a customer Scorecard was assembled after rapport_building, overtaken by
\* the nodes behind it, returned last
C16_Witness ==
    /\ Assembled /\ RunType = "customer"
    /\ aggregate[Len(aggregate)][1] = "rapport_building"

(* C17 *)

C18_ExactlyOnce ==
    LET done  == {l \in AllLabels : status[l] = "done"}
        base  == Len(aggregate) - Cardinality(done)
        added == SubSeq(aggregate, base + 1, Len(aggregate))
    IN  /\ \A l \in AllLabels : attempts[l] <= 1
        /\ base >= 0
        /\ pc = "invoke" => SubSeq(aggregate, 1, base) = Restored(RunType)
        /\ \A l \in AllLabels : Count(added, l) = IF l \in done THEN 1 ELSE 0
        /\ Assembled => \A l \in Range(Nodes(RunType)) : attempts[l] = 1

\* a Scorecard was assembled in a run that began from a saved aggregate
C18_Witness ==
    /\ Assembled /\ restores
    /\ Len(aggregate) = 2 * Len(Nodes(RunType))

(* C19 *)

\* C19: when a run was given up with tasks cancelled and the next request
\* tries the same room again, the nodes that had returned are not run again
C19_ProgressKept ==
    [][(/\ pc = "idle" /\ \E l \in AllLabels : status[l] = "cancelled"
        /\ pc' = "invoke" /\ room' = room)
       => \A l \in AllLabels : status[l] = "done" => status'[l] # "running"]_vars

(* C20 *)

\* C20: when the text a score node got holds no value (it is empty or white
\* space only), the request ends in an error
C20_ParserExplicit ==
    RunDone =>
      \A l \in Range(Nodes(RunType)) \ {"feedback"} :
          Strip(reply[l]) = <<>> => response[1] = "http500"

----------------------------------------------------------------------------
(* What the claims C21 to C27 speak of *)

\* the places of the system entries of a transcript
SystemTurns(t) == {i \in 1..Len(t) : t[i].role = "system"}

\* the entries of t without the one at place i, as "role: content"
Body(t, i) ==
    LET rest == SubSeq(t, 1, i - 1) \o SubSeq(t, i + 1, Len(t))
    IN  [k \in 1..Len(rest) |-> <<rest[k].role, rest[k].content>>]

(* C21 *)

\* C21: the context of a formatted transcript is the content of the first
\* system entry, and the conversation holds every other entry in order
C21_FirstSystemTurn ==
    (pc = "formatted" /\ SystemTurns(transcript) # {}) =>
      LET first == CHOOSE i \in SystemTurns(transcript) :
                       \A j \in SystemTurns(transcript) : i <= j
      IN  /\ formatted.context = transcript[first].content
          /\ formatted.conversation = Body(transcript, first)

(* C22 *)

\* graph.invoke has been entered and no node has arrived yet
RunStarts == pc = "invoke" /\ runCalls = 0

\* C22: once a request has assembled its Scorecard the checkpointer holds no
\* write of that run any more, and every run starts from an empty aggregate
\* channel, never from what a finished run left in it
C22_Lifecycle ==
    /\ Assembled => checkpoint[RunType] = {}
    /\ RunStarts => aggregate = <<>>

(* C23 *)

\* the graph runs of the process before the one of this request
OtherRuns == (1..runs) \ {runs}

\* the texts the backend may return to node l in graph run n
Texts(n, l) == {UsualReply(n, l)} \cup UnusualReplies(n, l)

\* the values the scores of graph run n may have, for every run the bound
\* on the requests allows
ScoresOf ==
    [n \in 1..MaxRequests |->
        {Str(Strip(t)) : t \in UNION {Texts(n, l) : l \in AllLabels \ {"feedback"}}}]

\* the values the feedback of graph run n may have
FeedbacksOf ==
    [n \in 1..MaxRequests |->
        {JsonLoads(t)[2] : t \in {u \in Texts(n, "feedback") : JsonLoads(u)[1] = "ok"}}]

\* C23: every value of a Scorecard a request assembled, its feedback
\* included, was produced by the graph run of that request, and none of them
\* is a value a run for another request produced (the empty text, which
\* tells no run, apart)
C23_Isolation ==
    Assembled =>
      LET card == response[2]
      IN  /\ \A s \in Sections : \A f \in DOMAIN card[s] :
                /\ card[s][f] = Null \/ card[s][f] \in ScoresOf[runs]
                /\ \A n \in OtherRuns : card[s][f] \in ScoresOf[n] => card[s][f] = Str(<<>>)
          /\ card.feedback \in FeedbacksOf[runs]
          /\ \A n \in OtherRuns : card.feedback \notin FeedbacksOf[n]

\* the Scorecard of a second sales room was assembled from an aggregate that
\* began with the items of the run for the first sales room
C23_Witness ==
    /\ Assembled /\ restores
    /\ room = "room_sales_2"
    /\ feedbackDocs["room_sales"] # <<>>
    /\ Len(aggregate) = 2 * Len(SalesNodes)

(* C24 *)

\* C24, as the claim has it: whatever requests come in, the graph is invoked
\* at most once for a room
C24_AtMostOnce == \A r \in Rooms : invocations[r] <= 1

\* C24: the graph is invoked for a room only while no feedback document is
\* stored for it, so at most one evaluation of a room ends in a stored
\* Scorecard; a document is written only by the request that assembled it,
\* under its own room, and once written it is never changed.  A room whose
\* evaluation failed is evaluated again by its next request
C24_OnceStored ==
    [][/\ \A r \in Rooms :
            /\ invocations'[r] # invocations[r] => feedbackDocs[r] = <<>>
            /\ feedbackDocs[r] # <<>> => feedbackDocs'[r] = feedbackDocs[r]
            /\ feedbackDocs'[r] # feedbackDocs[r] =>
                  /\ r = room /\ pc = "invoke" /\ pc' = "idle"
                  /\ response' = <<"scorecard", feedbackDocs'[r][1]>>]_vars

\* the second request for the sales room, after a first one whose run
\* failed, ran the graph again and stored the Scorecard
C24_Witness ==
    /\ Assembled /\ room = "room_sales"
    /\ requests = 2
    /\ invocations["room_sales"] = 2
    /\ feedbackDocs["room_sales"] = <<response[2]>>

(* C25 *)

\* a Scorecard with its four sections and its feedback, none of whose
\* entries is one whose lookup or parsing raised
Complete(card) ==
    /\ DOMAIN card = Sections \cup {"feedback"}
    /\ ~Raises(card)

\* C25: a step that does not answer a request with a Scorecard, and so every
\* request that ends in an error, leaves the feedback collection as it was;
\* a room has a feedback document only if a graph was invoked for it, and
\* every document stored is a complete Scorecard
C25_NothingPartial ==
    [][/\ response'[1] # "scorecard" => feedbackDocs' = feedbackDocs
       /\ \A r \in Rooms :
             feedbackDocs'[r] # <<>> =>
                /\ invocations'[r] >= 1
                /\ Complete(feedbackDocs'[r][1])]_vars

\* a request whose run was given up after a node failed, with items in its
\* aggregate, was answered 500 while the Scorecard of another room is stored
C25_Witness ==
    /\ RunOver /\ response[1] = "http500"
    /\ \E l \in AllLabels : Failed(l)
    /\ Len(aggregate) > 0
    /\ feedbackDocs[room] = <<>>
    /\ \E r \in Rooms : feedbackDocs[r] # <<>>

(* C26 *)

\* the request just answered found neither a feedback document nor a
\* transcription for its room
NothingFound ==
    /\ pc = "idle" /\ requests > 0
    /\ feedbackDocs[room] = <<>>
    /\ ~TranscriptionExists(room)

\* the request just answered found no feedback document and a transcription
\* whose type is neither customer nor sales
TypeRefused ==
    /\ pc = "idle" /\ requests > 0
    /\ feedbackDocs[room] = <<>>
    /\ TranscriptionExists(room) /\ ~ValidType(TypeOf(room))

\* C26: a request for a room with neither a feedback document nor a
\* transcription is answered 404 "Transcription not found", and one for a
\* transcription of another type is answered {"error": "Invalid type"}
\* without a graph run
C26_NotFound ==
    /\ NothingFound => response = <<"http404", "Transcription not found">>
    /\ TypeRefused => response = <<"error", "Invalid type">> /\ runCalls = 0

(* C27 *)

\* C27: when every node of a run returned, the aggregate handed to the
\* assembly is made of the items of this run alone: as many as the graph has
\* nodes, each the item of a node with the text that node got in this run
C27_NoAccumulation ==
    RunDone =>
      /\ Len(aggregate) = Len(Nodes(RunType))
      /\ \A i \in 1..Len(aggregate) :
            \E l \in Range(Nodes(RunType)) : aggregate[i] = Item(l, reply[l])

====
